---- MODULE Spec2Model ----
(***************************************************************************)
(* Model of the weather command-line tool (src/src/main.rs).               *)
(*                                                                         *)
(* One run of main: read the city, geocode it, fetch and decode the        *)
(* forecast, aggregate the hourly entries into day summaries, print the    *)
(* day cards and today's hourly block.                                     *)
(*                                                                         *)
(* Numbers: an f64 is a pair <<class, value>>, class 0 with an integer     *)
(* value for a finite number, class 1 and -1 for the two infinities.  The  *)
(* code only compares numbers; a JSON number is always finite and never    *)
(* NaN, so the infinities occur only as the initial hi/lo.                 *)
(* Timestamps have the lexical shape the slices of main.rs:136-137 need:   *)
(* a 10-character date, a separator and a 5-character hour:minute.  A day  *)
(* key is the triple of numbers its ten characters spell, which need not   *)
(* be a calendar date.                                                     *)
(***************************************************************************)
EXTENDS Integers, Sequences, FiniteSets

VARIABLES
    args,    \* TRUE iff command-line arguments were given
    feed,    \* what the forecast service will answer (environment)
    clock,   \* the local date of the run (environment)
    pc,      \* position of main
    name,    \* display name returned by geocode, NoName before
    today,   \* today key, NoDay before it is computed
    body,    \* response body of the forecast fetch
    resp,    \* decoded Response.weather
    days,    \* Vec<(String, DaySummary)>
    i,       \* index of the next entry of the aggregation loop
    j,       \* index of the next day of the card loop
    calls,   \* requests sent so far, in order
    out,     \* lines written to standard output
    err      \* lines written to standard error

vars == <<args, feed, clock, pc, name, today, body, resp, days, i, j, calls, out, err>>

----------------------------------------------------------------------------
(* ANSI constants, main.rs:4-11 *)
BOLD == "ESC[1m"
DIM == "ESC[2m"
CYAN == "ESC[36m"
BLUE == "ESC[34m"
GREEN == "ESC[32m"
YELLOW == "ESC[33m"
RED == "ESC[31m"
RESET == "ESC[0m"

(* f64: finite numbers and the two infinities, with their order *)
Fin(v) == <<0, v>>
INFINITY == <<1, 0>>
NEG_INFINITY == <<-1, 0>>
IsFinite(x) == x[1] = 0
Val(x) == x[2]
lt(a, b) == a[1] < b[1] \/ (a[1] = 0 /\ b[1] = 0 /\ a[2] < b[2])
gt(a, b) == lt(b, a)
ge(a, b) == gt(a, b) \/ a = b

NoName == "<none>"
NoDay == [y |-> 0, m |-> 0, d |-> 0]
NoBody == [valid |-> FALSE, weather |-> <<>>, fetched |-> FALSE]

(* Option<f64> *)
None == <<>>
Some(v) == <<v>>
unwrap_or(o, d) == IF o = None THEN d ELSE o[1]

----------------------------------------------------------------------------
(* Bounds of the checked input families *)
MaxLen == 3
MaxLenTemp == 3
MaxLenPrecip == 3
MaxLenCond == 3
MaxLenOrder == 4
MaxLenColour == 2

DayA == [y |-> 2024, m |-> 1, d |-> 1]
DayB == [y |-> 2024, m |-> 1, d |-> 2]
DayC == [y |-> 2024, m |-> 1, d |-> 3]
(* "2024-02-30": ten characters of the right shape, no calendar date *)
DayBad == [y |-> 2024, m |-> 2, d |-> 30]

WeatherEntry(D, H, T, P, C) ==
    [timestamp : [date : D, time : H],
     temperature : T,
     precipitation_probability : P,
     condition : C]

Feeds(E, n) == UNION {[1..k -> E] : k \in 0..n}

Bodies(E, n) ==
    {[valid |-> FALSE, weather |-> <<>>, fetched |-> TRUE]}
    \cup {[valid |-> TRUE, weather |-> w, fetched |-> TRUE] : w \in Feeds(E, n)}

----------------------------------------------------------------------------
(* Colour and icon helpers *)

(* Variant of tc: exactly 0 falls into the coldest bucket *)
tc_low0(t) ==
    IF lt(t, Fin(0)) \/ t = Fin(0) THEN BLUE
    ELSE IF lt(t, Fin(10)) THEN CYAN
    ELSE IF lt(t, Fin(20)) THEN GREEN
    ELSE IF lt(t, Fin(30)) THEN YELLOW
    ELSE RED

(* main.rs:34-40 *)
tc(t) ==
    IF lt(t, Fin(0)) THEN BLUE
    ELSE IF lt(t, Fin(10)) THEN CYAN
    ELSE IF lt(t, Fin(20)) THEN GREEN
    ELSE IF lt(t, Fin(30)) THEN YELLOW
    ELSE RED

(* main.rs:42-46 *)
rc(p) ==
    IF ge(p, Fin(70)) THEN RED
    ELSE IF ge(p, Fin(40)) THEN YELLOW
    ELSE DIM

(* main.rs:48-59, glyphs named by their category *)
icon(cond) ==
    CASE cond = "thunderstorm" -> "icon:thunderstorm"
      [] cond = "rain" -> "icon:rain"
      [] cond = "snow" -> "icon:snow"
      [] cond = "sleet" -> "icon:sleet"
      [] cond = "hail" -> "icon:hail"
      [] cond = "fog" -> "icon:fog"
      [] cond = "cloudy" -> "icon:cloudy"
      [] OTHER -> "icon:sun"

contains(conds, c) == \E k \in 1..Len(conds) : conds[k] = c

PRIORITY == <<"thunderstorm", "rain", "snow", "sleet", "hail", "fog", "cloudy">>

RECURSIVE pick_from(_, _, _)
pick_from(list, k, conds) ==
    IF k > Len(list) THEN icon("dry")
    ELSE IF contains(conds, list[k]) THEN icon(list[k])
    ELSE pick_from(list, k + 1, conds)

(* Variant of pick_icon: the condition recorded last decides *)
pick_icon_last(conds) ==
    IF conds = <<>> THEN icon("dry") ELSE icon(conds[Len(conds)])

(* main.rs:61-68 *)
pick_icon(conds) == pick_from(PRIORITY, 1, conds)

----------------------------------------------------------------------------
(* Aggregation, main.rs:133-165 *)

DayKey(timestamp) == timestamp.date
HourLabel(timestamp) == timestamp.time

NewSummary ==
    [hi |-> NEG_INFINITY, lo |-> INFINITY, max_rp |-> Fin(0),
     conds |-> <<>>, hours |-> <<>>]

(* Variant of position: a day is never found *)
position_none(ds, day) == 0

(* main.rs:142, 0 stands for None *)
position(ds, day) ==
    IF \E k \in 1..Len(ds) : ds[k][1] = day
    THEN CHOOSE k \in 1..Len(ds) :
             /\ ds[k][1] = day
             /\ \A m \in 1..(k - 1) : ds[m][1] # day
    ELSE 0

(* Variant of the high update: the last temperature wins *)
NewHi_last(hi, t) == t

(* main.rs:156 *)
NewHi(hi, t) == IF gt(t, hi) THEN t ELSE hi

(* Variant of the low update: the last temperature wins *)
NewLo_last(lo, t) == t

(* main.rs:157 *)
NewLo(lo, t) == IF lt(t, lo) THEN t ELSE lo

(* Variant of the precipitation update: the last value wins *)
NewMaxRp_last(max_rp, rp) == rp

(* main.rs:158 *)
NewMaxRp(max_rp, rp) == IF gt(rp, max_rp) THEN rp ELSE max_rp

(* Variant of the condition update: no containment test *)
NewConds_all(conds, cond) ==
    IF cond # "dry" THEN Append(conds, cond) ELSE conds

(* main.rs:159-161 *)
NewConds(conds, cond) ==
    IF cond # "dry" /\ ~contains(conds, cond) THEN Append(conds, cond) ELSE conds

(* Variant of the hourly update: no test for today *)
NewHours_always(hours, day, tday, tuple) == Append(hours, tuple)

(* main.rs:162-164 *)
NewHours(hours, day, tday, tuple) ==
    IF day = tday THEN Append(hours, tuple) ELSE hours

(* main.rs:136-164, the loop body *)
Update(ds, entry, tday) ==
    LET day == DayKey(entry.timestamp)
        hour == HourLabel(entry.timestamp)
        t == entry.temperature
        rp == unwrap_or(entry.precipitation_probability, Fin(0))
        cond == entry.condition
        idx == position(ds, day)
        ds1 == IF idx # 0 THEN ds ELSE Append(ds, <<day, NewSummary>>)
        k == IF idx # 0 THEN idx ELSE Len(ds1)
        s == ds1[k][2]
        s1 == [hi |-> NewHi(s.hi, t),
               lo |-> NewLo(s.lo, t),
               max_rp |-> NewMaxRp(s.max_rp, rp),
               conds |-> NewConds(s.conds, cond),
               hours |-> NewHours(s.hours, day, tday, <<hour, t, rp, cond>>)]
    IN [ds1 EXCEPT ![k] = <<day, s1>>]

----------------------------------------------------------------------------
(* Rendering, main.rs:167-200 *)

IsLeap(y) == (y % 4 = 0 /\ y % 100 # 0) \/ y % 400 = 0

DaysInMonth(y, m) ==
    IF m = 2 THEN (IF IsLeap(y) THEN 29 ELSE 28)
    ELSE IF m \in {4, 6, 9, 11} THEN 30 ELSE 31

(* main.rs:176, NaiveDate::parse_from_str(day, "%Y-%m-%d") is Ok *)
parse_from_str_ok(day) ==
    /\ day.m \in 1..12
    /\ day.d >= 1
    /\ day.d <= DaysInMonth(day.y, day.m)

(* main.rs:177, %a of a calendar date *)
Weekday(day) ==
    LET t == <<0, 3, 2, 5, 0, 3, 5, 1, 4, 6, 2, 4>>
        y1 == IF day.m < 3 THEN day.y - 1 ELSE day.y
        n == (y1 + (y1 \div 4) - (y1 \div 100) + (y1 \div 400) + t[day.m] + day.d) % 7
    IN <<"Sun", "Mon", "Tue", "Wed", "Thu", "Fri", "Sat">>[n + 1]

(* main.rs:176-177, "%a %d.%m." *)
DateLabel(day) == <<Weekday(day), day.d, day.m>>

HeaderLines(nm) ==
    <<[kind |-> "title", text |-> nm],
      [kind |-> "columns", text |-> "Temp Rain"],
      [kind |-> "rule", text |-> "cards"]>>

CardLine(day, d, tday) ==
    [kind |-> "card",
     day |-> day,
     label |-> IF day = tday THEN <<"Today">> ELSE DateLabel(day),
     ic |-> pick_icon(d.conds),
     lo_colour |-> tc(d.lo), lo |-> d.lo,
     hi_colour |-> tc(d.hi), hi |-> d.hi,
     rp_colour |-> rc(d.max_rp), rp |-> d.max_rp]

HourLine(h) ==
    [kind |-> "hour",
     hour |-> h[1],
     ic |-> icon(h[4]),
     t_colour |-> tc(h[2]), t |-> h[2],
     rp_colour |-> rc(h[3]), rp |-> h[3]]

(* main.rs:186 *)
find(ds, tday) == position(ds, tday)

HourlyLines(ds, tday) ==
    LET k == find(ds, tday) IN
    IF k # 0 /\ ds[k][2].hours # <<>>
    THEN <<[kind |-> "blank", text |-> ""],
           [kind |-> "columns", text |-> "Time Temp Rain"],
           [kind |-> "rule", text |-> "hourly"]>>
         \o [m \in 1..Len(ds[k][2].hours) |-> HourLine(ds[k][2].hours[m])]
    ELSE <<>>

----------------------------------------------------------------------------
(* The run of main *)

InitWith(B, Clocks) ==
    /\ args \in BOOLEAN
    /\ feed \in B
    /\ clock \in Clocks
    /\ pc = "start"
    /\ name = NoName
    /\ today = NoDay
    /\ body = NoBody
    /\ resp = <<>>
    /\ days = <<>>
    /\ i = 1
    /\ j = 1
    /\ calls = <<>>
    /\ out = <<>>
    /\ err = <<>>

(* main.rs:89-97, arguments given or a line read from standard input *)
ReadCity ==
    /\ pc = "start"
    /\ err' = IF args THEN err ELSE Append(err, "City: ")
    /\ pc' = "geocode"
    /\ UNCHANGED <<args, feed, clock, name, today, body, resp, days, i, j, calls, out>>

(* main.rs:93, read_line fails and unwrap panics *)
ReadCityPanic ==
    /\ pc = "start"
    /\ ~args
    /\ err' = err \o <<"City: ", "panic: read_line">>
    /\ pc' = "panicked"
    /\ UNCHANGED <<args, feed, clock, name, today, body, resp, days, i, j, calls, out>>

(* main.rs:70-86 and 99-100, geocode returns Some *)
GeocodeSome ==
    /\ pc = "geocode"
    /\ calls' = Append(calls, "geocode")
    /\ name' = "City"
    /\ pc' = "fetch"
    /\ UNCHANGED <<args, feed, clock, today, body, resp, days, i, j, out, err>>

(* Variant of GeocodeNone: the run goes on after the diagnostic *)
GeocodeNone_go ==
    /\ pc = "geocode"
    /\ calls' = Append(calls, "geocode")
    /\ err' = Append(err, "Could not find city")
    /\ pc' = "fetch"
    /\ UNCHANGED <<args, feed, clock, name, today, body, resp, days, i, j, out>>

(* main.rs:70-86 and 101-104, geocode returns None *)
GeocodeNone ==
    /\ pc = "geocode"
    /\ calls' = Append(calls, "geocode")
    /\ err' = Append(err, "Could not find city")
    /\ pc' = "exit"
    /\ UNCHANGED <<args, feed, clock, name, today, body, resp, days, i, j, out>>

(* main.rs:107-118, the clock is read and the forecast is fetched *)
FetchOk ==
    /\ pc = "fetch"
    /\ today' = clock
    /\ calls' = Append(calls, "forecast")
    /\ body' = feed
    /\ pc' = "decode"
    /\ UNCHANGED <<args, feed, clock, name, resp, days, i, j, out, err>>

(* main.rs:107-122, the fetch fails *)
FetchErr ==
    /\ pc = "fetch"
    /\ today' = clock
    /\ calls' = Append(calls, "forecast")
    /\ err' = Append(err, "Error")
    /\ pc' = "exit"
    /\ UNCHANGED <<args, feed, clock, name, body, resp, days, i, j, out>>

(* main.rs:125-133 *)
Decode ==
    /\ pc = "decode"
    /\ IF body.valid
       THEN /\ resp' = body.weather
            /\ pc' = "aggregate"
            /\ err' = err
       ELSE /\ resp' = resp
            /\ pc' = "exit"
            /\ err' = Append(err, "JSON error")
    /\ days' = <<>>
    /\ i' = 1
    /\ UNCHANGED <<args, feed, clock, name, today, body, j, calls, out>>

(* main.rs:135-165, one iteration of the loop *)
AggregateEntry ==
    /\ pc = "aggregate"
    /\ i <= Len(resp)
    /\ days' = Update(days, resp[i], today)
    /\ i' = i + 1
    /\ UNCHANGED <<args, feed, clock, pc, name, today, body, resp, j, calls, out, err>>

(* main.rs:168-170 *)
PrintHeader ==
    /\ pc = "aggregate"
    /\ i > Len(resp)
    /\ out' = out \o HeaderLines(name)
    /\ j' = 1
    /\ pc' = "cards"
    /\ UNCHANGED <<args, feed, clock, name, today, body, resp, days, i, calls, err>>

(* main.rs:171-183, one card *)
PrintCard ==
    /\ pc = "cards"
    /\ j <= Len(days)
    /\ days[j][1] = today \/ parse_from_str_ok(days[j][1])
    /\ out' = Append(out, CardLine(days[j][1], days[j][2], today))
    /\ j' = j + 1
    /\ UNCHANGED <<args, feed, clock, pc, name, today, body, resp, days, i, calls, err>>

(* main.rs:176, the key of another day is no calendar date and unwrap panics *)
PrintCardPanic ==
    /\ pc = "cards"
    /\ j <= Len(days)
    /\ days[j][1] # today
    /\ ~parse_from_str_ok(days[j][1])
    /\ err' = Append(err, "panic: parse_from_str")
    /\ pc' = "aborted"
    /\ UNCHANGED <<args, feed, clock, name, today, body, resp, days, i, j, calls, out>>

(* main.rs:186-200 *)
PrintHourly ==
    /\ pc = "cards"
    /\ j > Len(days)
    /\ out' = out \o HourlyLines(days, today) \o <<[kind |-> "blank", text |-> ""]>>
    /\ pc' = "done"
    /\ UNCHANGED <<args, feed, clock, name, today, body, resp, days, i, j, calls, err>>

Next ==
    \/ ReadCity
    \/ ReadCityPanic
    \/ GeocodeSome
    \/ GeocodeNone
    \/ FetchOk
    \/ FetchErr
    \/ Decode
    \/ AggregateEntry
    \/ PrintHeader
    \/ PrintCard
    \/ PrintCardPanic
    \/ PrintHourly

----------------------------------------------------------------------------
(* Input families *)

Hours == {"00:00", "12:00"}

(* The general family: two days, two hours, three kinds of reading *)
Readings ==
    {<<Fin(-2), None, "dry">>, <<Fin(5), Some(Fin(80)), "rain">>,
     <<Fin(0), Some(Fin(40)), "cloudy">>}

Entries ==
    {[timestamp |-> [date |-> d, time |-> h],
      temperature |-> r[1],
      precipitation_probability |-> r[2],
      condition |-> r[3]] : d \in {DayA, DayB}, h \in Hours, r \in Readings}

(* One observation whose day key is no calendar date *)
BadEntry ==
    [timestamp |-> [date |-> DayBad, time |-> "00:00"],
     temperature |-> Fin(5),
     precipitation_probability |-> None,
     condition |-> "dry"]

Init == InitWith(Bodies(Entries \cup {BadEntry}, MaxLen), {DayA})

Spec == Init /\ [][Next]_vars

(* Temperatures only *)
InitTemp ==
    InitWith(Bodies(WeatherEntry({DayA, DayB}, {"00:00"},
                                 {Fin(v) : v \in {-2000000, -2, 5, 2000000}}, {None},
                                 {"dry"}) \cup {BadEntry}, MaxLenTemp),
             {DayA})

SpecTemp == InitTemp /\ [][Next]_vars

(* Precipitation only, with values outside [0,100] *)
InitPrecip ==
    InitWith(Bodies(WeatherEntry({DayA, DayB}, {"00:00"}, {Fin(5)},
                                 {None} \cup {Some(Fin(v)) : v \in {-5, 0, 40, 120}},
                                 {"dry"}) \cup {BadEntry}, MaxLenPrecip),
             {DayA})

SpecPrecip == InitPrecip /\ [][Next]_vars

(* Conditions of two days, with an unrecognised label *)
InitCond ==
    InitWith(Bodies(WeatherEntry({DayA, DayB}, {"00:00"}, {Fin(5)}, {None},
                                 {"dry", "rain", "cloudy", "clear"}) \cup {BadEntry}, MaxLenCond),
             {DayA})

SpecCond == InitCond /\ [][Next]_vars

(* Every condition label, one day *)
InitIcon ==
    InitWith(Bodies(WeatherEntry({DayB}, {"00:00"}, {Fin(5)}, {None},
                                 {"thunderstorm", "rain", "snow", "sleet", "hail",
                                  "fog", "cloudy", "dry", "clear"}) \cup {BadEntry}, MaxLenCond),
             {DayA, DayB})

SpecIcon == InitIcon /\ [][Next]_vars

(* Day keys only, three days and a key that is no calendar date *)
InitOrder ==
    InitWith(Bodies(WeatherEntry({DayA, DayB, DayC, DayBad}, {"00:00"}, {Fin(5)}, {None},
                                 {"dry"}), MaxLenOrder),
             {DayA})

SpecOrder == InitOrder /\ [][Next]_vars

(* Temperatures and precipitation values around the colour boundaries *)
InitColour ==
    InitWith(Bodies(WeatherEntry({DayA}, {"00:00"},
                                 {Fin(v) : v \in {-1, 0, 9, 10, 19, 20, 29, 30}},
                                 {None} \cup {Some(Fin(v)) : v \in {39, 40, 69, 70}},
                                 {"dry"}) \cup {BadEntry}, MaxLenColour),
             {DayA})

SpecColour == InitColour /\ [][Next]_vars

----------------------------------------------------------------------------
(* Reference notions used by the properties *)

Aggregated == pc \in {"cards", "done", "aborted"}

Processed == SubSeq(resp, 1, i - 1)

KeysOf(seq) == {seq[k].timestamp.date : k \in 1..Len(seq)}

OfDay(seq, d) == {k \in 1..Len(seq) : seq[k].timestamp.date = d}

TempsOf(seq, d) == {Val(seq[k].temperature) : k \in OfDay(seq, d)}

PrecipOf(e) ==
    IF e.precipitation_probability = None THEN 0
    ELSE Val(e.precipitation_probability[1])

PrecipsOf(seq, d) == {PrecipOf(seq[k]) : k \in OfDay(seq, d)}

Greatest(S) == CHOOSE x \in S : \A y \in S : x >= y

Least(S) == CHOOSE x \in S : \A y \in S : x <= y

SummariesOf(ds, d) == {k \in 1..Len(ds) : ds[k][1] = d}

Range(seq) == {seq[k] : k \in 1..Len(seq)}

CardsOf(lines) == SelectSeq(lines, LAMBDA l : l.kind = "card")

HoursOf(lines) == SelectSeq(lines, LAMBDA l : l.kind = "hour")

----------------------------------------------------------------------------
(* C1: after aggregation every day key of the input has a summary whose   *)
(* high is the greatest and whose low is the least temperature of exactly *)
(* the observations of that day, both finite, and high >= low.            *)
C1_HighLow ==
    Aggregated =>
        \A d \in KeysOf(resp) :
            /\ SummariesOf(days, d) # {}
            /\ \A k \in SummariesOf(days, d) :
                   /\ IsFinite(days[k][2].hi)
                   /\ IsFinite(days[k][2].lo)
                   /\ Val(days[k][2].hi) = Greatest(TempsOf(resp, d))
                   /\ Val(days[k][2].lo) = Least(TempsOf(resp, d))
                   /\ Val(days[k][2].hi) >= Val(days[k][2].lo)

(* Two days aggregated, one of them with a falling run of temperatures *)
C1_Witness ==
    /\ Aggregated
    /\ Len(days) = 2
    /\ Len(resp) = 3
    /\ resp[1].timestamp.date = resp[3].timestamp.date
    /\ Val(resp[1].temperature) > Val(resp[3].temperature)
    /\ Val(days[1][2].hi) > Val(days[1][2].lo)

----------------------------------------------------------------------------
(* C2 as stated: after aggregation the max precipitation probability of   *)
(* a day is the greatest of the day's values, absent counted as 0, and    *)
(* lies in [0,100] whenever every present value of the input does.        *)
C2_Original ==
    Aggregated =>
        \A d \in KeysOf(resp) : \A k \in SummariesOf(days, d) :
            /\ days[k][2].max_rp = Fin(Greatest(PrecipsOf(resp, d)))
            /\ (\A m \in 1..Len(resp) : PrecipOf(resp[m]) \in 0..100)
                   => (IsFinite(days[k][2].max_rp) /\ Val(days[k][2].max_rp) \in 0..100)

(* C2 amended: the max precipitation probability of a day is the greatest *)
(* of 0 and the day's values (absent counted as 0), hence the greatest of *)
(* the day's values unless all of them are present and negative, and it   *)
(* lies in [0,100] whenever every present value of the input does.        *)
C2_MaxPrecip ==
    Aggregated =>
        \A d \in KeysOf(resp) :
            /\ SummariesOf(days, d) # {}
            /\ \A k \in SummariesOf(days, d) :
                   /\ days[k][2].max_rp = Fin(Greatest({0} \cup PrecipsOf(resp, d)))
                   /\ (\E v \in PrecipsOf(resp, d) : v >= 0)
                          => days[k][2].max_rp = Fin(Greatest(PrecipsOf(resp, d)))
                   /\ (\A m \in 1..Len(resp) : PrecipOf(resp[m]) \in 0..100)
                          => (IsFinite(days[k][2].max_rp) /\ Val(days[k][2].max_rp) \in 0..100)

(* A day whose values rise and then fall, with an absent one *)
C2_Witness ==
    /\ Aggregated
    /\ Len(resp) = 3
    /\ KeysOf(resp) = {DayA}
    /\ resp[1].precipitation_probability = None
    /\ resp[2].precipitation_probability = Some(Fin(40))
    /\ resp[3].precipitation_probability = Some(Fin(0))
    /\ days[1][2].max_rp = Fin(40)

----------------------------------------------------------------------------
(* C3: after any prefix of the input, no day's distinct conditions hold a *)
(* label twice and none holds the dry label.                              *)
C3_DistinctConds ==
    \A k \in 1..Len(days) :
        LET conds == days[k][2].conds IN
        /\ \A a, b \in 1..Len(conds) : a # b => conds[a] # conds[b]
        /\ \A a \in 1..Len(conds) : conds[a] # "dry"

(* A label repeated around a dry observation, recorded once *)
C3_Witness ==
    /\ pc = "aggregate"
    /\ i = 4
    /\ KeysOf(Processed) = {DayA}
    /\ resp[1].condition = "rain"
    /\ resp[2].condition = "dry"
    /\ resp[3].condition = "rain"
    /\ days[1][2].conds = <<"rain">>

----------------------------------------------------------------------------
(* C4: the day keys of the summaries, and of the printed cards once the   *)
(* run is done, are the input's day keys with later repetitions removed.  *)
RECURSIVE FirstOccurrences(_)
FirstOccurrences(keys) ==
    IF keys = <<>> THEN <<>>
    ELSE LET front == SubSeq(keys, 1, Len(keys) - 1)
             last == keys[Len(keys)]
         IN IF last \in Range(front)
            THEN FirstOccurrences(front)
            ELSE Append(FirstOccurrences(front), last)

InputKeys == [k \in 1..Len(resp) |-> resp[k].timestamp.date]

C4_DayOrder ==
    /\ Aggregated =>
           [k \in 1..Len(days) |-> days[k][1]] = FirstOccurrences(InputKeys)
    /\ pc = "done" =>
           [k \in 1..Len(CardsOf(out)) |-> CardsOf(out)[k].day]
               = FirstOccurrences(InputKeys)
    /\ pc = "aborted" =>
           [k \in 1..Len(CardsOf(out)) |-> CardsOf(out)[k].day]
               = SubSeq(FirstOccurrences(InputKeys), 1, Len(CardsOf(out)))

(* Input days B, A, B, C printed as B, A, C *)
C4_Witness ==
    /\ pc = "done"
    /\ InputKeys = <<DayB, DayA, DayB, DayC>>
    /\ [k \in 1..Len(CardsOf(out)) |-> CardsOf(out)[k].day] = <<DayB, DayA, DayC>>

----------------------------------------------------------------------------
(* C5: the icon of every printed card is that of the first of             *)
(* thunderstorm, rain, snow, sleet, hail, fog, cloudy among the day's     *)
(* conditions, whatever their recorded order, and the clear icon when     *)
(* none of the seven is among them; cloudy with rain gives the rain icon. *)
Categories == <<"thunderstorm", "rain", "snow", "sleet", "hail", "fog", "cloudy">>

IconOf ==
    [c \in Range(Categories) |->
        CASE c = "thunderstorm" -> "icon:thunderstorm"
          [] c = "rain" -> "icon:rain"
          [] c = "snow" -> "icon:snow"
          [] c = "sleet" -> "icon:sleet"
          [] c = "hail" -> "icon:hail"
          [] c = "fog" -> "icon:fog"
          [] c = "cloudy" -> "icon:cloudy"]

IconIsFirstPresent(ic, present) ==
    \/ /\ present \cap Range(Categories) = {}
       /\ ic = "icon:sun"
    \/ \E a \in 1..Len(Categories) :
           /\ Categories[a] \in present
           /\ \A b \in 1..(a - 1) : Categories[b] \notin present
           /\ ic = IconOf[Categories[a]]

C5_IconPriority ==
    \A n \in 1..Len(CardsOf(out)) :
        LET card == CardsOf(out)[n]
            present == Range(days[n][2].conds)
        IN /\ card.day = days[n][1]
           /\ IconIsFirstPresent(card.ic, present)
           /\ present = {"cloudy", "rain"} => card.ic = "icon:rain"

(* Cloudy recorded before rain, the card shows the rain icon *)
C5_Witness ==
    /\ pc = "done"
    /\ Len(days) = 1
    /\ days[1][2].conds = <<"cloudy", "rain">>
    /\ CardsOf(out)[1].ic = "icon:rain"

----------------------------------------------------------------------------
(* C6: in a run that reached rendering and has ended, the hourly section  *)
(* has been printed if and only if some input observation has today's day *)
(* key.                                                                   *)
HourlyPrinted ==
    \E n \in 1..Len(out) : out[n].kind = "rule" /\ out[n].text = "hourly"

C6_HourlyIff ==
    (pc \in {"done", "aborted"} /\ out # <<>>) =>
        (HourlyPrinted <=> (\E k \in 1..Len(resp) : resp[k].timestamp.date = today))

----------------------------------------------------------------------------
(* C7: every printed temperature has the colour of its bucket, t < 0,     *)
(* [0,10), [10,20), [20,30), >= 30, five distinct colours, and every      *)
(* printed precipitation has the colour of p >= 70, [40,70), p < 40.      *)
TempBucket(t) ==
    CASE t < 0 -> "cold-extreme"
      [] t >= 0 /\ t < 10 -> "cool"
      [] t >= 10 /\ t < 20 -> "mild"
      [] t >= 20 /\ t < 30 -> "warm"
      [] t >= 30 -> "hot"

TempColour ==
    [b \in {"cold-extreme", "cool", "mild", "warm", "hot"} |->
        CASE b = "cold-extreme" -> BLUE
          [] b = "cool" -> CYAN
          [] b = "mild" -> GREEN
          [] b = "warm" -> YELLOW
          [] b = "hot" -> RED]

PrecipBucket(p) ==
    CASE p >= 70 -> "high-alert"
      [] p >= 40 /\ p < 70 -> "caution"
      [] p < 40 -> "muted"

PrecipColour ==
    [b \in {"high-alert", "caution", "muted"} |->
        CASE b = "high-alert" -> RED
          [] b = "caution" -> YELLOW
          [] b = "muted" -> DIM]

C7_Colours ==
    /\ Cardinality({TempColour[b] : b \in DOMAIN TempColour}) = 5
    /\ Cardinality({PrecipColour[b] : b \in DOMAIN PrecipColour}) = 3
    /\ \A n \in 1..Len(out) :
           /\ out[n].kind = "card" =>
                  /\ out[n].lo_colour = TempColour[TempBucket(Val(out[n].lo))]
                  /\ out[n].hi_colour = TempColour[TempBucket(Val(out[n].hi))]
                  /\ out[n].rp_colour = PrecipColour[PrecipBucket(Val(out[n].rp))]
           /\ out[n].kind = "hour" =>
                  /\ out[n].t_colour = TempColour[TempBucket(Val(out[n].t))]
                  /\ out[n].rp_colour = PrecipColour[PrecipBucket(Val(out[n].rp))]

(* A card from exactly 0 to exactly 30 with 70 percent, an hour at 40 *)
C7_Witness ==
    /\ pc = "done"
    /\ \E n \in 1..Len(out) :
           /\ out[n].kind = "card"
           /\ out[n].lo = Fin(0) /\ out[n].lo_colour = CYAN
           /\ out[n].hi = Fin(30) /\ out[n].hi_colour = RED
           /\ out[n].rp = Fin(70) /\ out[n].rp_colour = RED
    /\ \E n \in 1..Len(out) :
           /\ out[n].kind = "hour"
           /\ out[n].rp = Fin(40) /\ out[n].rp_colour = YELLOW

----------------------------------------------------------------------------
(* C8: the forecast is requested only after geocode returned a location;  *)
(* aggregation and rendering happen only after both requests succeeded    *)
(* and the body was decoded; a run that fails at one of the three places  *)
(* has written its diagnostic last on standard error and nothing on       *)
(* standard output, has built no summary, has sent no request twice and   *)
(* takes no further step.                                                 *)
Last(seq) == seq[Len(seq)]

C8_FailFast ==
    /\ contains(calls, "forecast") => calls = <<"geocode", "forecast">> /\ name # NoName
    /\ Len(calls) <= 2
    /\ pc \in {"aggregate", "cards", "done", "aborted"} =>
           /\ name # NoName
           /\ calls = <<"geocode", "forecast">>
           /\ body.fetched /\ body.valid /\ resp = body.weather
    /\ (days # <<>> \/ out # <<>>) => pc \in {"aggregate", "cards", "done", "aborted"}
    /\ (calls # <<>> /\ name = NoName) => pc = "exit"
    /\ (Len(calls) = 2 /\ ~body.fetched) => pc = "exit"
    /\ (body.fetched /\ ~body.valid) => pc \in {"decode", "exit"}
    /\ pc = "exit" =>
           /\ out = <<>> /\ days = <<>>
           /\ ~ENABLED Next
           /\ name = NoName => Last(err) = "Could not find city"
           /\ (name # NoName /\ ~body.fetched) => Last(err) = "Error"
           /\ body.fetched => ~body.valid /\ Last(err) = "JSON error"

(* The body of a fetched forecast could not be decoded *)
C8_Witness ==
    /\ pc = "exit"
    /\ calls = <<"geocode", "forecast">>
    /\ body.fetched /\ ~body.valid
    /\ Last(err) = "JSON error"
    /\ out = <<>>

----------------------------------------------------------------------------
(* C9: after any prefix of the input, the hourly list of today's summary  *)
(* is the processed observations of today, in input order, as (hour,      *)
(* temperature, precipitation or 0, condition), every other summary's     *)
(* hourly list is empty, and the printed hour lines follow that list.     *)
TodayTuples(seq) ==
    LET sel == SelectSeq(seq, LAMBDA e : e.timestamp.date = today)
    IN [n \in 1..Len(sel) |->
           <<sel[n].timestamp.time, sel[n].temperature, Fin(PrecipOf(sel[n])),
             sel[n].condition>>]

C9_Hourly ==
    /\ \A k \in 1..Len(days) :
           days[k][2].hours =
               IF days[k][1] = today THEN TodayTuples(Processed) ELSE <<>>
    /\ pc = "done" =>
           [n \in 1..Len(HoursOf(out)) |->
               <<HoursOf(out)[n].hour, HoursOf(out)[n].t, HoursOf(out)[n].rp>>]
           = [n \in 1..Len(TodayTuples(resp)) |->
               <<TodayTuples(resp)[n][1], TodayTuples(resp)[n][2],
                 TodayTuples(resp)[n][3]>>]

(* Two different observations of today around one of another day *)
C9_Witness ==
    /\ pc = "aggregate"
    /\ i = 4
    /\ resp[1].timestamp.date = today
    /\ resp[2].timestamp.date # today
    /\ resp[3].timestamp.date = today
    /\ resp[1].timestamp.time = "12:00"
    /\ resp[3].timestamp.time = "00:00"
    /\ resp[1].precipitation_probability = None
    /\ Len(days[1][2].hours) = 2
    /\ days[1][2].hours[1][1] = "12:00"
    /\ days[2][2].hours = <<>>

----------------------------------------------------------------------------
(* C10: aggregating any permutation of the input gives every day the same *)
(* high, low, max precipitation probability, set of conditions and icon.  *)
RECURSIVE AggregateAll(_, _)
AggregateAll(seq, tday) ==
    IF seq = <<>> THEN <<>>
    ELSE Update(AggregateAll(SubSeq(seq, 1, Len(seq) - 1), tday), seq[Len(seq)], tday)

Permutations(n) ==
    {p \in [1..n -> 1..n] : \A a, b \in 1..n : a # b => p[a] # p[b]}

Permuted(seq, p) == [k \in 1..Len(seq) |-> seq[p[k]]]

SameRollup(a, b) ==
    /\ a.hi = b.hi
    /\ a.lo = b.lo
    /\ a.max_rp = b.max_rp
    /\ Range(a.conds) = Range(b.conds)
    /\ pick_icon(a.conds) = pick_icon(b.conds)

C10_Permutation ==
    Aggregated =>
        \A p \in Permutations(Len(resp)) :
            LET other == AggregateAll(Permuted(resp, p), today) IN
            \A d \in KeysOf(resp) :
                /\ SummariesOf(other, d) # {}
                /\ \A a \in SummariesOf(days, d), b \in SummariesOf(other, d) :
                       SameRollup(days[a][2], other[b][2])

(* Some permutation changes the order of the days and of the conditions *)
C10_Witness ==
    /\ Aggregated
    /\ Len(resp) = 3
    /\ Len(days) = 2
    /\ Val(days[1][2].hi) > Val(days[1][2].lo)
    /\ Len(days[1][2].conds) = 2
    /\ \E p \in Permutations(Len(resp)) :
           LET other == AggregateAll(Permuted(resp, p), today) IN
           /\ other[1][1] # days[1][1]
           /\ other[2][2].conds # days[1][2].conds

====
